---- MODULE Spec2Model ----
(***************************************************************************)
(* Model of packages/gatsby-source-kontent/src/webhookProcessor.ts:        *)
(* handleIncomingWebhook and the handlers it drives, against a node store  *)
(* (Gatsby's) and a remote content fetcher (client.loadKontentItem).       *)
(*                                                                         *)
(* A run is one call of handleIncomingWebhook.  It is cut at its awaits:   *)
(* the synchronous prefix up to the first fetch, one step per configured   *)
(* language (the fetch and the synchronous code that follows it), and the  *)
(* touch propagation that follows the handler's return.                    *)
(***************************************************************************)
EXTENDS Integers, Sequences, FiniteSets, TLC

(***************************************************************************)
(* JavaScript values the code distinguishes.                               *)
(***************************************************************************)
\* A missing property of an object is a missing field of the record; a missing
\* string reads as Undefined, a missing object as UndefinedObject.
Undefined == "<undefined>"
Null == "<null>"
UndefinedObject == [undefined |-> TRUE]

\* obj?.field for a string-valued field
Get(obj, field) == IF field \in DOMAIN obj THEN obj[field] ELSE Undefined
\* obj?.field for an object-valued field
GetObject(obj, field) == IF field \in DOMAIN obj THEN obj[field] ELSE UndefinedObject

\* JavaScript truthiness of a string-or-missing value (`a && b`).
Truthy(v) == v # Undefined /\ v # Null /\ v # ""

Range(s) == {s[i] : i \in 1..Len(s)}

\* Array.prototype.includes on a list of strings.
Includes(list, v) == \E i \in 1..Len(list) : list[i] = v

(***************************************************************************)
(* Strings whose characters the code reads are given by their characters.  *)
(* An item id is written as a short token; Chars gives the UUID it stands  *)
(* for:  xxxxxxxx-xxxx-01xx-xxxx-xxxxxxxxxxxx  is a content component.     *)
(***************************************************************************)
Rep(c, n) == [i \in 1..n |-> c]

Uuid(c, third) ==
    Rep(c, 8) \o <<"-">> \o Rep(c, 4) \o <<"-">> \o third \o <<"-">>
        \o Rep(c, 4) \o <<"-">> \o Rep(c, 12)

\* i1, i2: ordinary items (version nibble 4).  c1: a component ("01" at 14).
\* k1: a linked item whose id holds "01" one character later (at 15).
Chars(id) ==
    CASE id = "i1" -> Uuid("a", <<"4", "a", "a", "a">>)
      [] id = "i2" -> Uuid("b", <<"4", "b", "b", "b">>)
      [] id = "c1" -> Uuid("c", <<"0", "1", "c", "c">>)
      [] id = "k1" -> Uuid("d", <<"d", "0", "1", "d">>)

\* String.prototype.substring(from, to) on the characters (0-based, to excluded).
Substring(chars, from, to) == SubSeq(chars, from + 1, to)

(***************************************************************************)
(* Plugin configuration (CustomPluginOptions) and naming.                  *)
(***************************************************************************)
ProjectId == "project-1"
languageCodenames == <<"en", "cz">>
ConfiguredLanguages == Range(languageCodenames)

\* Type names are token lists: kontent_item_article is <<"kontent","item","article">>.
getKontentItemInterfaceName == <<"kontent", "item">>
getKontentItemNodeTypeName(type) == getKontentItemInterfaceName \o <<type>>
getKontentTaxonomyTypeName == <<"kontent", "taxonomy">>
getKontentTypeTypeName == <<"kontent", "type">>
RICH_TEXT_ELEMENT_TYPE_NAME == "rich_text"

\* String.prototype.startsWith on token lists.
StartsWith(name, prefix) ==
    Len(name) >= Len(prefix) /\ SubSeq(name, 1, Len(prefix)) = prefix

\* The registered item types handed to handleIncomingWebhook ("author" is not one).
itemTypes == <<getKontentItemNodeTypeName("article"), getKontentItemNodeTypeName("widget")>>

getKontentItemNodeStringForId(id, lang) == <<"kontent-item", id, lang>>

\* Gatsby's createNodeId: a deterministic, collision-free digest of its argument.
createNodeId(idString) == idString

(***************************************************************************)
(* Content: items as the Delivery API returns them (KontentItem).          *)
(***************************************************************************)
Codename(id) ==
    CASE id = "i1" -> "article_one"
      [] id = "i2" -> "article_two"
      [] id = "c1" -> "widget_component"
      [] id = "k1" -> "author_linked"

SystemType(id) ==
    CASE id \in {"i1", "i2"} -> "article"
      [] id = "c1" -> "widget"
      [] id = "k1" -> "author"

IdOfCodename(codename) == CHOOSE id \in {"i1", "i2", "c1", "k1"} : Codename(id) = codename

\* A rich-text element lists the codenames it embeds in modular_content; a linked
\* items element (type "modular_content") lists them in value.
RichText(refs) == [type |-> RICH_TEXT_ELEMENT_TYPE_NAME, value |-> {}, modular_content |-> refs]
LinkedItems(refs) == [type |-> "modular_content", value |-> refs, modular_content |-> {}]

\* body embeds the component and the linked item
ElementsA == [body |-> RichText({Codename("c1"), Codename("k1")}), related |-> LinkedItems({})]
\* body embeds the linked item only; the component is referenced by a linked items element
ElementsB == [body |-> RichText({Codename("k1")}), related |-> LinkedItems({Codename("c1")})]
\* no reference at all
ElementsC == [body |-> RichText({}), related |-> LinkedItems({})]

\* A raw item: system.language is the language the content resolved to (fallback).
KontentItem(id, language, elements) ==
    [system |-> [id |-> id, codename |-> Codename(id), language |-> language,
                 type |-> SystemType(id)],
     elements |-> elements]

\* Object.values
ObjectValues(obj) == {obj[k] : k \in DOMAIN obj}

(***************************************************************************)
(* The remote source: what the Delivery API resolves for (item, language). *)
(* UndefinedObject: no content resolves for this language after fallback.  *)
(***************************************************************************)
RemoteEn(id) ==
    {UndefinedObject, KontentItem(id, "en", ElementsA), KontentItem(id, "en", ElementsB)}

\* "cz" may resolve to its own variant or fall back to the "en" content.
RemoteCz(id) ==
    {UndefinedObject, KontentItem(id, "cz", ElementsA), KontentItem(id, "en", ElementsA),
     KontentItem(id, "cz", ElementsC)}

\* The second item is published in "en" only and embeds nothing.
RemoteOfI2(lang) ==
    IF lang = "en" THEN KontentItem("i2", "en", ElementsC) ELSE UndefinedObject

RemoteOf(en, cz) ==
    [k \in {"i1", "i2"} \X ConfiguredLanguages |->
        IF k[1] = "i2" THEN RemoteOfI2(k[2]) ELSE IF k[2] = "en" THEN en ELSE cz]

Remotes == {RemoteOf(en, cz) : en \in RemoteEn("i1"), cz \in RemoteCz("i1")}

\* The remote content at the time of the last full sourcing, which the store
\* still reflects when a notification arrives.
EarlierRemotes ==
    {RemoteOf(UndefinedObject, UndefinedObject),
     RemoteOf(KontentItem("i1", "en", ElementsA), UndefinedObject),
     RemoteOf(UndefinedObject, KontentItem("i1", "cz", ElementsA)),
     RemoteOf(KontentItem("i1", "en", ElementsA), KontentItem("i1", "cz", ElementsA)),
     RemoteOf(KontentItem("i1", "en", ElementsB), KontentItem("i1", "en", ElementsA))}

\* The codenames an item references: they are the keys of its modular content.
ReferencedCodenames(item) ==
    UNION {e.modular_content \cup e.value : e \in ObjectValues(item.elements)}

\* client.loadKontentItem(id, lang, config, true): the item, or undefined, and the
\* modular content map (codename -> item) returned with it.
loadKontentItem(r, id, lang) ==
    LET item == IF <<id, lang>> \in DOMAIN r THEN r[<<id, lang>>] ELSE UndefinedObject IN
    [item |-> item,
     modularKontent |->
        IF item = UndefinedObject THEN <<>>
        ELSE [c \in ReferencedCodenames(item) |->
                KontentItem(IdOfCodename(c), item.system.language, ElementsC)]]

(***************************************************************************)
(* Inbound payloads (api.webhookBody).                                     *)
(***************************************************************************)
\* The longest data.items list the model delivers.
MaxItems == 2

Without(obj, field) == [k \in DOMAIN obj \ {field} |-> obj[k]]

ApiNames == {"delivery_preview", "delivery_production", "content_management"}
Operations == {"upsert", "archive", "restore", "publish", "unpublish", "change_workflow_step"}
ProjectIds == {ProjectId, "project-2"}
MessageTypes == {"content_item_variant", "taxonomy"}

Messages ==
    [api_name : ApiNames, operation : Operations, project_id : ProjectIds,
     type : MessageTypes]

\* The five (api_name, operation) pairs Kontent sends for a language variant.
VariantMessages ==
    {m \in Messages :
        /\ m.project_id = ProjectId
        /\ m.type = "content_item_variant"
        /\ \/ m.api_name = "delivery_preview" /\ m.operation \in {"upsert", "archive", "restore"}
           \/ m.api_name = "delivery_production" /\ m.operation \in {"publish", "unpublish"}}

\* "de" is a language the plugin is not configured for.
ItemEntries ==
    {[id |-> "i1", language |-> "en"], [id |-> "i1", language |-> "de"],
     [id |-> "i2", language |-> "cz"]}

MalformedItemEntries ==
    {[language |-> "en"], [id |-> "i1"], [id |-> "", language |-> "en"],
     [id |-> "i1", language |-> ""]}

ItemLists == UNION {[1..n -> ItemEntries] : n \in 0..MaxItems}

MalformedItemLists ==
    {<<bad>> : bad \in MalformedItemEntries}
        \cup {<<[id |-> "i1", language |-> "en"], bad>> : bad \in MalformedItemEntries}

Envelope(items, message) == [data |-> [items |-> items], message |-> message]

\* Every message around one well-formed item.
EnvelopeBodies == {Envelope(<<[id |-> "i1", language |-> "en"]>>, m) : m \in Messages}

\* Every item list under the messages Kontent sends.
ItemBodies == {Envelope(items, m) : items \in ItemLists, m \in VariantMessages}

\* One message of each handler, for the payloads below.
SampleMessages == {m \in VariantMessages : m.operation \in {"upsert", "unpublish"}}

\* Payloads with a part missing.
MalformedBodies ==
    {Envelope(items, m) : items \in MalformedItemLists, m \in SampleMessages}
        \cup {Envelope(<<[id |-> "i1", language |-> "en"]>>, [m EXCEPT !.operation = Null]) :
                m \in SampleMessages}
        \cup {Envelope(<<[id |-> "i1", language |-> "en"]>>, Without(m, f)) :
                m \in SampleMessages, f \in {"operation", "api_name", "project_id"}}
        \cup {[data |-> [items |-> <<[id |-> "i1", language |-> "en"]>>]],
              [message |-> CHOOSE m \in VariantMessages : m.operation = "upsert"],
              [data |-> [total |-> "1"],
               message |-> CHOOSE m \in VariantMessages : m.operation = "upsert"],
              [ping |-> "pong"]}

WebhookBodies == EnvelopeBodies \cup ItemBodies \cup MalformedBodies

(***************************************************************************)
(* Envelope validation and the support check.                              *)
(***************************************************************************)
NullObject == [null |-> TRUE]

\* Variant: the check reads item.language only (C1 must tell it apart).
EveryItemHasLanguage(body) ==
    LET data == GetObject(body, "data") IN
    /\ "items" \in DOMAIN data
    /\ \A i \in 1..Len(data.items) : Truthy(Get(data.items[i], "language"))

\* parsedBody?.data?.items?.every(item => item.language && item.id)
EveryItemHasLanguageAndId(body) ==
    LET data == GetObject(body, "data") IN
    /\ "items" \in DOMAIN data
    /\ \A i \in 1..Len(data.items) :
          Truthy(Get(data.items[i], "language")) /\ Truthy(Get(data.items[i], "id"))

\* parsedBody?.message?.operation !== null: a missing operation reads undefined,
\* which is not null.
OperationIsNotNull(body) == Get(GetObject(body, "message"), "operation") # Null

parseKontentWebhookBody(body) ==
    LET message == GetObject(body, "message")
        isCorrectStructure ==
            /\ EveryItemHasLanguageAndId(body)
            /\ Truthy(Get(message, "api_name"))
            /\ Truthy(Get(message, "project_id"))
            /\ OperationIsNotNull(body)
    IN IF isCorrectStructure THEN body ELSE NullObject

\* Variant: the project is not compared (C2 must tell it apart).
isAnyProject(message, projectId) == Truthy(Get(message, "project_id"))

isCorrectProject(message, projectId) == Get(message, "project_id") = projectId

isPreviewWebhook(message) ==
    /\ "delivery_preview" = Get(message, "api_name")
    /\ Includes(<<"upsert", "archive", "restore">>, Get(message, "operation"))

isBuildWebhook(message) ==
    /\ "delivery_production" = Get(message, "api_name")
    /\ Includes(<<"publish", "unpublish">>, Get(message, "operation"))

isCorrectMessageType(message) == Get(message, "type") = "content_item_variant"

\* Variant: the support check does not look at api_name and operation
\* (C20 must tell it apart).
isVariantOfProject(message, projectId) ==
    /\ isCorrectProject(message, projectId)
    /\ isCorrectMessageType(message)

isKontentSupportedWebhook(message, projectId) ==
    /\ isCorrectProject(message, projectId)
    /\ (isPreviewWebhook(message) \/ isBuildWebhook(message))
    /\ isCorrectMessageType(message)

\* Variant: the preview branch forgets "restore" (C3 must tell it apart).
DispatchWithoutRestore(message) ==
    LET api_name == Get(message, "api_name")
        operation == Get(message, "operation")
    IN IF api_name = "delivery_preview"
       THEN IF operation = "upsert" THEN "upsert"
            ELSE IF operation = "archive" THEN "delete"
            ELSE "none"
       ELSE IF api_name = "delivery_production"
       THEN IF operation = "publish" THEN "upsert"
            ELSE IF operation = "unpublish" THEN "delete"
            ELSE "none"
       ELSE "ignore"

\* The handler handleIncomingWebhook calls for a supported webhook: "upsert",
\* "delete", "none" (a recognised api_name whose operation matches no branch) or
\* "ignore" (the else branch: 'Webhook is not supported yet!').
Dispatch(message) ==
    LET api_name == Get(message, "api_name")
        operation == Get(message, "operation")
    IN IF api_name = "delivery_preview"
       THEN IF operation = "upsert" \/ operation = "restore" THEN "upsert"
            ELSE IF operation = "archive" THEN "delete"
            ELSE "none"
       ELSE IF api_name = "delivery_production"
       THEN IF operation = "publish" THEN "upsert"
            ELSE IF operation = "unpublish" THEN "delete"
            ELSE "none"
       ELSE "ignore"

(***************************************************************************)
(* The node store (api.getNode, getNodes, getNodesByType, actions).        *)
(***************************************************************************)
getNode(nodes, id) ==
    IF \E n \in nodes : n.id = id THEN CHOOSE n \in nodes : n.id = id ELSE UndefinedObject

getNodesByType(nodes, type) == {n \in nodes : n.internal.type = type}

\* Variant: a node with the same id is removed and the new one is not stored
\* (C11 must tell it apart).
createNodeDroppingExisting(nodes, nodeData) ==
    IF \E n \in nodes : n.id = nodeData.id
    THEN {n \in nodes : n.id # nodeData.id}
    ELSE nodes \cup {nodeData}

\* Variant: the new node is stored next to the one with the same id
\* (C12 must tell it apart).
createNodeKeepingOld(nodes, nodeData) == nodes \cup {nodeData}

\* actions.createNode: a node with the same id is replaced.
createNode(nodes, nodeData) == {n \in nodes : n.id # nodeData.id} \cup {nodeData}

\* actions.deleteNode
deleteNode(nodes, node) == {n \in nodes : n.id # node.id}

RECURSIVE deleteNodes(_, _)
deleteNodes(nodes, list) ==
    IF list = <<>> THEN nodes
    ELSE deleteNodes(deleteNode(nodes, Head(list)), Tail(list))

RECURSIVE createNodes(_, _)
createNodes(nodes, list) ==
    IF list = <<>> THEN nodes
    ELSE createNodes(createNode(nodes, Head(list)), Tail(list))

TaxonomyNode(codename) ==
    [id |-> <<"kontent-taxonomy", codename>>,
     internal |-> [type |-> getKontentTaxonomyTypeName],
     system |-> [id |-> codename, codename |-> codename]]

TypeNode(codename) ==
    [id |-> <<"kontent-type", codename>>,
     internal |-> [type |-> getKontentTypeTypeName],
     system |-> [id |-> codename, codename |-> codename]]

SchemaNodes == {TaxonomyNode("topics"), TaxonomyNode("regions"), TypeNode("article")}

(***************************************************************************)
(* createNodeFromRawKontentItem                                            *)
(***************************************************************************)
PREFERRED_LANGUAGE_IDENTIFIER == "preferred_language"

\* sourceNodes.items: sets item[PREFERRED_LANGUAGE_IDENTIFIER]
addPreferredLanguageProperty(item, language) ==
    (PREFERRED_LANGUAGE_IDENTIFIER :> language) @@ item

\* sourceNodes.items: rewrites the links and images of rich-text elements, which
\* are not part of this model; type and modular_content are left as they are.
alterRichTextElements(item) == item

\* sourceNodes.items: the node of an item, its id derived from system.id and the
\* preferred language.
getKontentItemLanguageVariantArtifact(item) ==
    ("id" :> createNodeId(getKontentItemNodeStringForId(
                item.system.id, item[PREFERRED_LANGUAGE_IDENTIFIER]))
     @@ "internal" :> [type |-> getKontentItemNodeTypeName(item.system.type)])
    @@ item

\* Variant: the node is filed under the language the content resolved to
\* (C4 must tell it apart).
createNodeFromResolvedLanguage(rawKontentItem, preferredLanguage) ==
    getKontentItemLanguageVariantArtifact(
        alterRichTextElements(
            addPreferredLanguageProperty(rawKontentItem, rawKontentItem.system.language)))

\* The node data createNodeFromRawKontentItem hands to actions.createNode.
createNodeFromRawKontentItem(rawKontentItem, preferredLanguage) ==
    getKontentItemLanguageVariantArtifact(
        alterRichTextElements(
            addPreferredLanguageProperty(rawKontentItem, preferredLanguage)))

isContentComponent(data) ==
    LET id == data.system.id IN
    id # Null /\ Substring(Chars(id), 14, 16) = <<"0", "1">>

(***************************************************************************)
(* One language of the fan-out.                                            *)
(***************************************************************************)
RECURSIVE SetToSeq(_)
SetToSeq(S) ==
    IF S = {} THEN <<>>
    ELSE LET x == CHOOSE y \in S : TRUE IN <<x>> \o SetToSeq(S \ {x})

\* Object keys in the order `for key in` visits them.
Keys(obj) == SetToSeq(DOMAIN obj)

\* The nodes one snapshot is materialised into: the item, then every entry of its
\* modular content, each under the requested language.
MaterializedNodes(result, lang) ==
    LET keys == Keys(result.modularKontent) IN
    <<createNodeFromRawKontentItem(result.item, lang)>>
        \o [i \in 1..Len(keys) |->
              createNodeFromRawKontentItem(result.modularKontent[keys[i]], lang)]

Ids(list) == [i \in 1..Len(list) |-> list[i].id]

\* api.getNodes().filter(node => node.internal.type.startsWith(getKontentItemInterfaceName()))
kontentItemNodes(nodes) ==
    {n \in nodes : StartsWith(n.internal.type, getKontentItemInterfaceName)}

\* The modular_content of the rich-text elements of a node, flattened.
modularItemCodenames(node) ==
    UNION {e.modular_content :
             e \in {x \in ObjectValues(node.elements) : x.type = RICH_TEXT_ELEMENT_TYPE_NAME}}

\* kontentItemNodes.find(...): the stored item node with this codename in the
\* preferred language of the node being removed.
FindCandidate(itemNodes, modularItemCodename, node) ==
    LET matching ==
            {c \in itemNodes :
                /\ "system" \in DOMAIN c
                /\ c.system.codename = modularItemCodename
                /\ Get(c, PREFERRED_LANGUAGE_IDENTIFIER) = Get(node, PREFERRED_LANGUAGE_IDENTIFIER)}
    IN IF matching = {} THEN UndefinedObject ELSE CHOOSE c \in matching : TRUE

\* The candidates the cascade deletes with the node.
ComponentsToDelete(nodes, node) ==
    {c \in {FindCandidate(kontentItemNodes(nodes), codename, node) :
              codename \in modularItemCodenames(node)} :
        c # UndefinedObject /\ isContentComponent(c)}

\* The snapshot branch, shared by both handlers: create the item and its modular
\* content.  The result is the store and the ids pushed.
Materialize(nodes, result, lang) ==
    LET list == MaterializedNodes(result, lang) IN
    [nodes |-> createNodes(nodes, list), pushed |-> Ids(list),
     created |-> Range(Ids(list)), deleted |-> {}, threw |-> FALSE]

NothingDone(nodes) ==
    [nodes |-> nodes, pushed |-> <<>>, created |-> {}, deleted |-> {}, threw |-> FALSE]

\* Variant: the upsert handler's iteration removes the item nodes of a language
\* that does not resolve (C18 must tell it apart).
UpsertIterationDroppingStale(nodes, result, lang) ==
    IF result.item = UndefinedObject
    THEN LET stale == SetToSeq({n \in kontentItemNodes(nodes) : n.preferred_language = lang}) IN
         [nodes |-> deleteNodes(nodes, stale), pushed |-> Ids(stale),
          created |-> {}, deleted |-> Range(Ids(stale)), threw |-> FALSE]
    ELSE Materialize(nodes, result, lang)

\* handleUpsertItem, one iteration of its loop.
UpsertIteration(nodes, result, lang) ==
    IF result.item = UndefinedObject
    THEN NothingDone(nodes)
    ELSE Materialize(nodes, result, lang)

\* handleDeleteItem, the branch for an item that no longer resolves: the cascade
\* reads node.elements before `if (node)`, so a missing node is a TypeError.
DeleteAbsent(nodes, itemId, lang) ==
    LET node == getNode(nodes, createNodeId(getKontentItemNodeStringForId(itemId, lang))) IN
    IF node = UndefinedObject
    THEN [NothingDone(nodes) EXCEPT !.threw = TRUE]
    ELSE LET components == SetToSeq(ComponentsToDelete(nodes, node)) \o <<node>> IN
         [nodes |-> deleteNodes(nodes, components), pushed |-> Ids(components),
          created |-> {}, deleted |-> Range(Ids(components)), threw |-> FALSE]

\* Variant: the delete handler's iteration skips a language that does not
\* resolve, as the upsert handler's does (C15 must tell it apart).
DeleteIterationSkippingAbsent(nodes, result, itemId, lang) ==
    UpsertIteration(nodes, result, lang)

\* handleDeleteItem, one iteration of its loop.
DeleteIteration(nodes, result, itemId, lang) ==
    IF result.item = UndefinedObject
    THEN DeleteAbsent(nodes, itemId, lang)
    ELSE Materialize(nodes, result, lang)

(***************************************************************************)
(* Touch propagation.                                                      *)
(***************************************************************************)
\* `processedItemIds.concat(processedIds);`: concat returns a new array and the
\* statement drops it, so processedItemIds is what it was.
ConcatStatement(processedItemIds, processedIds) == processedItemIds

\* Variant: every node of the registered item types is touched (C6 must tell it
\* apart).
AllItemsOfRegisteredTypes(nodes, processedItemIds) ==
    UNION {getNodesByType(nodes, itemTypes[t]) : t \in 1..Len(itemTypes)}

\* The nodes of the registered item types whose id is in processedItemIds.
ItemsToTouch(nodes, processedItemIds) ==
    UNION {{item \in getNodesByType(nodes, itemTypes[t]) : Includes(processedItemIds, item.id)} :
             t \in 1..Len(itemTypes)}

TaxonomiesToTouch(nodes, config) ==
    IF config.includeTaxonomies THEN getNodesByType(nodes, getKontentTaxonomyTypeName) ELSE {}

\* Variant: the type loop is guarded by the taxonomy flag (C7 must tell it apart).
TypesToTouchByTaxonomyFlag(nodes, config) ==
    IF config.includeTaxonomies THEN getNodesByType(nodes, getKontentTypeTypeName) ELSE {}

TypesToTouch(nodes, config) ==
    IF config.includeTypes THEN getNodesByType(nodes, getKontentTypeTypeName) ELSE {}

(***************************************************************************)
(* State.                                                                  *)
(***************************************************************************)
VARIABLES
    pluginConfig,      \* includeTaxonomies, includeTypes
    remote,            \* what the Delivery API resolves for (item id, language)
    store,             \* the nodes of the Gatsby store
    webhookBody,       \* api.webhookBody of the current run
    pc,                \* idle, or where the run is: upsert, delete, touch, done, failed,
                       \* interrupted
    langIdx,           \* the index in languageCodenames of the next language
    handlerIds,        \* createdItemsIds / touchedItemsIds of the running handler
    processedItemIds,  \* processedItemIds of handleIncomingWebhook
    touched,           \* ids given to actions.touchNode in this run
    created,           \* ids given to actions.createNode in this run
    deleted,           \* ids given to actions.deleteNode in this run
    fetched,           \* (item id, language) pairs asked of the Delivery API in this run
    handler,           \* what the run was dispatched to
    storeAtStart,      \* the store when the run began
    firstRun           \* for a redelivered notification: the run it repeats

vars ==
    <<pluginConfig, remote, store, webhookBody, pc, langIdx, handlerIds, processedItemIds,
      touched, created, deleted, fetched, handler, storeAtStart, firstRun>>

\* The run is not the redelivery of an earlier notification.
NoFirstRun == [redelivered |-> FALSE]

\* The store an earlier full sourcing of the remote content r left.
SourcedStore(r) ==
    LET pairs == SetToSeq(DOMAIN r)
        sourced[i \in 0..Len(pairs)] ==
            IF i = 0 THEN SchemaNodes
            ELSE UpsertIteration(sourced[i - 1],
                                 loadKontentItem(r, pairs[i][1], pairs[i][2]),
                                 pairs[i][2]).nodes
    IN sourced[Len(pairs)]

Init ==
    /\ pluginConfig \in [includeTaxonomies : BOOLEAN, includeTypes : BOOLEAN]
    /\ remote \in Remotes
    /\ \E earlier \in EarlierRemotes : store = SourcedStore(earlier)
    /\ webhookBody = [ping |-> "pong"]
    /\ pc = "idle"
    /\ langIdx = 0
    /\ handlerIds = <<>>
    /\ processedItemIds = <<>>
    /\ touched = {}
    /\ created = {}
    /\ deleted = {}
    /\ fetched = {}
    /\ handler = "rejected"
    /\ storeAtStart = store
    /\ firstRun = NoFirstRun

\* Variant: the last entry of data.items is read (C13 must tell it apart).
lastItemInfoOf(body) ==
    IF Len(body.data.items) >= 1
    THEN body.data.items[Len(body.data.items)]
    ELSE UndefinedObject

\* `(api.webhookBody as IWebhookDeliveryResponse)?.data.items[0]`: undefined when the
\* list is empty.
itemInfoOf(body) ==
    IF Len(body.data.items) >= 1 THEN body.data.items[1] ELSE UndefinedObject

itemInfo == itemInfoOf(webhookBody)

\* Variant: the event's language is not checked (C10 must tell it apart).
LanguageIsAny(info) == TRUE

\* pluginConfig.languageCodenames.includes(itemInfo.language)
LanguageIsConfigured(info) == Includes(languageCodenames, Get(info, "language"))

\* The loop of a handler as a function of the store it starts from: the
\* iterations over `languages` in order, ended by the first one that throws.
RECURSIVE FanOut(_, _, _, _, _)
FanOut(to, nodes, r, itemId, languages) ==
    IF languages = <<>> THEN NothingDone(nodes)
    ELSE LET lang == Head(languages)
             result == loadKontentItem(r, itemId, lang)
             step == IF to = "upsert"
                     THEN UpsertIteration(nodes, result, lang)
                     ELSE DeleteIteration(nodes, result, itemId, lang)
         IN IF step.threw THEN step
            ELSE LET rest == FanOut(to, step.nodes, r, itemId, Tail(languages)) IN
                 [nodes |-> rest.nodes,
                  pushed |-> step.pushed \o rest.pushed,
                  created |-> step.created \cup rest.created,
                  deleted |-> step.deleted \cup rest.deleted,
                  threw |-> rest.threw]

\* handleUpsertItem / handleDeleteItem run without interruption on `body`.
HandlerRun(to, nodes, r, body) ==
    IF itemInfoOf(body) = UndefinedObject
    THEN [NothingDone(nodes) EXCEPT !.threw = TRUE]
    ELSE IF ~LanguageIsConfigured(itemInfoOf(body))
    THEN NothingDone(nodes)
    ELSE FanOut(to, nodes, r, Get(itemInfoOf(body), "id"), languageCodenames)

\* The synchronous start of handleIncomingWebhook: validation, the support check,
\* the dispatch and the handler's code up to its first fetch.
Begin(body) ==
    /\ webhookBody' = body
    /\ storeAtStart' = store
    /\ touched' = {}
    /\ created' = {}
    /\ deleted' = {}
    /\ fetched' = {}
    /\ handlerIds' = <<>>
    /\ processedItemIds' = <<>>
    /\ UNCHANGED <<pluginConfig, remote, store>>
    /\ LET webhook == parseKontentWebhookBody(body) IN
       IF webhook = NullObject
       THEN handler' = "rejected" /\ pc' = "done" /\ langIdx' = 0
       ELSE IF ~isKontentSupportedWebhook(webhook.message, ProjectId)
       THEN handler' = "unhandled" /\ pc' = "done" /\ langIdx' = 0
       ELSE LET to == Dispatch(webhook.message) IN
            /\ handler' = to
            /\ IF to = "ignore" THEN pc' = "done" /\ langIdx' = 0
               ELSE IF to = "none" THEN pc' = "touch" /\ langIdx' = 0
               \* itemInfo is undefined: reading itemInfo.language is a TypeError
               ELSE IF itemInfoOf(body) = UndefinedObject THEN pc' = "failed" /\ langIdx' = 0
               \* 'Cant find specified language': the handler returns []
               ELSE IF ~LanguageIsConfigured(itemInfoOf(body))
               THEN pc' = "touch" /\ langIdx' = 0
               ELSE pc' = to /\ langIdx' = 1

\* A notification arrives at the idle plugin.
HandleIncomingWebhook(body) ==
    /\ pc = "idle"
    /\ Begin(body)
    /\ firstRun' = NoFirstRun

\* What follows an iteration: the next language, the handler's return, or the
\* rejection of the run.
AfterIteration(step, loop) ==
    /\ store' = step.nodes
    /\ created' = created \cup step.created
    /\ deleted' = deleted \cup step.deleted
    /\ handlerIds' = handlerIds \o step.pushed
    /\ IF step.threw
       THEN pc' = "failed" /\ langIdx' = 0 /\ UNCHANGED processedItemIds
       ELSE IF langIdx < Len(languageCodenames)
       THEN pc' = loop /\ langIdx' = langIdx + 1 /\ UNCHANGED processedItemIds
       ELSE /\ pc' = "touch"
            /\ langIdx' = 0
            /\ processedItemIds' = ConcatStatement(processedItemIds, handlerIds')

\* handleUpsertItem: the fetch of one language and the code up to the next await.
UpsertLanguage ==
    /\ pc = "upsert"
    /\ LET lang == languageCodenames[langIdx]
           result == loadKontentItem(remote, Get(itemInfo, "id"), lang)
       IN /\ fetched' = fetched \cup {<<Get(itemInfo, "id"), lang>>}
          /\ AfterIteration(UpsertIteration(store, result, lang), "upsert")
    /\ UNCHANGED <<pluginConfig, remote, webhookBody, touched, handler, storeAtStart,
                   firstRun>>

\* handleDeleteItem: the fetch of one language and the code up to the next await.
DeleteLanguage ==
    /\ pc = "delete"
    /\ LET lang == languageCodenames[langIdx]
           result == loadKontentItem(remote, Get(itemInfo, "id"), lang)
       IN /\ fetched' = fetched \cup {<<Get(itemInfo, "id"), lang>>}
          /\ AfterIteration(DeleteIteration(store, result, Get(itemInfo, "id"), lang), "delete")
    /\ UNCHANGED <<pluginConfig, remote, webhookBody, touched, handler, storeAtStart,
                   firstRun>>

\* handleIncomingWebhook after the handler returned: the three touch loops.
TouchPropagation ==
    /\ pc = "touch"
    /\ touched' = touched
          \cup {n.id : n \in ItemsToTouch(store, processedItemIds)}
          \cup {n.id : n \in TaxonomiesToTouch(store, pluginConfig)}
          \cup {n.id : n \in TypesToTouch(store, pluginConfig)}
    /\ pc' = "done"
    /\ UNCHANGED <<pluginConfig, remote, store, webhookBody, langIdx, handlerIds,
                   processedItemIds, created, deleted, fetched, handler, storeAtStart,
                   firstRun>>

\* The promise of handleIncomingWebhook settled: the host is ready for the next
\* notification (it delivers them one at a time).
AwaitNextWebhook ==
    /\ pc \in {"done", "failed", "interrupted"}
    /\ pc' = "idle"
    /\ webhookBody' = [ping |-> "pong"]
    /\ langIdx' = 0
    /\ handlerIds' = <<>>
    /\ processedItemIds' = <<>>
    /\ touched' = {}
    /\ created' = {}
    /\ deleted' = {}
    /\ fetched' = {}
    /\ handler' = "rejected"
    /\ storeAtStart' = store
    /\ firstRun' = NoFirstRun
    /\ UNCHANGED <<pluginConfig, remote, store>>

\* The run is cut short in the fan-out: the awaited fetch of the next language
\* rejects (or the process stops), and the nodes of the languages already
\* processed stay as they are.
Interrupt ==
    /\ pc \in {"upsert", "delete"}
    /\ pc' = "interrupted"
    /\ UNCHANGED <<pluginConfig, remote, store, webhookBody, langIdx, handlerIds,
                   processedItemIds, touched, created, deleted, fetched, handler,
                   storeAtStart, firstRun>>

\* The same notification is delivered again, the remote content unchanged: after
\* a completed upsert, or after an interrupted delete.
Redeliver ==
    /\ \/ pc = "done" /\ handler = "upsert"
       \/ pc = "interrupted" /\ handler = "delete"
    /\ ~firstRun.redelivered
    /\ Begin(webhookBody)
    /\ firstRun' = [redelivered |-> TRUE, ended |-> pc, start |-> storeAtStart,
                    end |-> store]

Next ==
    \/ \E body \in WebhookBodies : HandleIncomingWebhook(body)
    \/ UpsertLanguage
    \/ DeleteLanguage
    \/ TouchPropagation
    \/ AwaitNextWebhook
    \/ Interrupt
    \/ Redeliver

Spec == Init /\ [][Next]_vars

(***************************************************************************)
(* Properties.                                                             *)
(***************************************************************************)
\* A run is under way or has ended (the run variables describe it).
InRun == pc # "idle"

RunEnded == pc \in {"done", "failed"}

\* Nothing was created, deleted or touched, and the store is what it was.
NoMutation ==
    /\ created = {}
    /\ deleted = {}
    /\ touched = {}
    /\ store = storeAtStart

StoreIds == {n.id : n \in store}

NodeId(id, lang) == createNodeId(getKontentItemNodeStringForId(id, lang))

\* An entry of data.items lacks id or language, or message.operation is missing.
IsMalformed(body) ==
    \/ /\ "data" \in DOMAIN body
       /\ "items" \in DOMAIN body.data
       /\ \E i \in 1..Len(body.data.items) :
             \/ "id" \notin DOMAIN body.data.items[i]
             \/ "language" \notin DOMAIN body.data.items[i]
    \/ /\ "message" \in DOMAIN body
       /\ "operation" \notin DOMAIN body.message

\* C1: a run on a malformed payload (an entry of data.items without id or without
\* language, or a message without operation) ends at once, having created,
\* deleted and touched nothing and leaving the store as it was.
C1_MalformedPayloadNoMutation ==
    (InRun /\ IsMalformed(webhookBody)) => (pc = "done" /\ NoMutation /\ fetched = {})

\* C1 witness: a payload for an existing item whose message has no operation got
\* past the structural check (undefined is not null), was dropped by the support
\* check, and taxonomy touching was enabled.
C1_Witness ==
    /\ pc = "done"
    /\ "message" \in DOMAIN webhookBody
    /\ "operation" \notin DOMAIN webhookBody.message
    /\ handler = "unhandled"
    /\ pluginConfig.includeTaxonomies
    /\ NodeId("i1", "en") \in StoreIds

\* The structural check (parseKontentWebhookBody) accepted the payload.
IsEnvelope(body) == parseKontentWebhookBody(body) # NullObject

\* C2: a run on a structurally valid envelope of another project creates, deletes
\* and touches nothing, whatever its api_name, operation and type and whatever the
\* inclusion flags.
C2_ForeignProjectNoMutation ==
    (/\ InRun
     /\ IsEnvelope(webhookBody)
     /\ webhookBody.message.project_id # ProjectId)
        => (pc = "done" /\ NoMutation /\ fetched = {})

\* C2 witness: an upsert notification of the preview API for an existing item,
\* from another project, with both inclusion flags set, was dropped.
C2_Witness ==
    /\ pc = "done"
    /\ IsEnvelope(webhookBody)
    /\ webhookBody.message.project_id = "project-2"
    /\ webhookBody.message.api_name = "delivery_preview"
    /\ webhookBody.message.operation = "upsert"
    /\ webhookBody.message.type = "content_item_variant"
    /\ pluginConfig.includeTaxonomies
    /\ pluginConfig.includeTypes
    /\ remote[<<"i1", "en">>] # UndefinedObject

UpsertPairs ==
    {<<"delivery_preview", "upsert">>, <<"delivery_preview", "restore">>,
     <<"delivery_production", "publish">>}

DeletePairs ==
    {<<"delivery_preview", "archive">>, <<"delivery_production", "unpublish">>}

PairOf(body) == <<Get(body.message, "api_name"), Get(body.message, "operation")>>

\* C3: for an envelope of the configured project and of the variant type, the
\* upsert handler runs exactly for (preview, upsert), (preview, restore) and
\* (production, publish), the delete handler exactly for (preview, archive) and
\* (production, unpublish); for every other pair, of any envelope, neither handler
\* runs: nothing is fetched, created or deleted.
C3_OperationClassifier ==
    (InRun /\ IsEnvelope(webhookBody)) =>
        /\ (/\ webhookBody.message.project_id = ProjectId
            /\ Get(webhookBody.message, "type") = "content_item_variant")
              => /\ (handler = "upsert") <=> (PairOf(webhookBody) \in UpsertPairs)
                 /\ (handler = "delete") <=> (PairOf(webhookBody) \in DeletePairs)
        /\ (PairOf(webhookBody) \notin UpsertPairs \cup DeletePairs)
              => /\ handler \notin {"upsert", "delete"}
                 /\ pc = "done"
                 /\ fetched = {} /\ created = {} /\ deleted = {}

\* C3 witness: a (preview, restore) notification ran the upsert handler to the
\* end and created nodes.
C3_Witness ==
    /\ pc = "done"
    /\ IsEnvelope(webhookBody)
    /\ PairOf(webhookBody) = <<"delivery_preview", "restore">>
    /\ handler = "upsert"
    /\ created # {}

(***************************************************************************)
(* The fan-out.                                                            *)
(***************************************************************************)
\* The item and the language the event names (data.items[0]).
EventItem == Get(itemInfo, "id")
EventLanguage == Get(itemInfo, "language")

\* The remote source resolves content for (id, lang).
Resolves(id, lang) == <<id, lang>> \in DOMAIN remote /\ remote[<<id, lang>>] # UndefinedObject

\* The codenames of the modular content returned with (id, lang).
ModularCodenames(id, lang) == ReferencedCodenames(remote[<<id, lang>>])

\* The handler ran to its return.
HandlerReturned == pc \in {"touch", "done"}

\* What an upsert of EventItem has to leave when every language resolves: the
\* created ids are the primary node and the modular nodes of each language, each
\* is stored under its requested language, and no other node changed.
UpsertLeavesBothLanguages ==
    /\ created =
          UNION {{NodeId(EventItem, lang)}
                    \cup {NodeId(IdOfCodename(c), lang) : c \in ModularCodenames(EventItem, lang)} :
                 lang \in ConfiguredLanguages}
    /\ Cardinality({NodeId(EventItem, lang) : lang \in ConfiguredLanguages}) = Len(languageCodenames)
    /\ \A lang \in ConfiguredLanguages :
          /\ \E n \in store :
                /\ n.id = NodeId(EventItem, lang)
                /\ n.system.id = EventItem
                /\ n.preferred_language = lang
                /\ n.system.language = remote[<<EventItem, lang>>].system.language
                /\ n.elements = remote[<<EventItem, lang>>].elements
          /\ \A c \in ModularCodenames(EventItem, lang) :
                \E n \in store :
                   /\ n.id = NodeId(IdOfCodename(c), lang)
                   /\ n.system.codename = c
                   /\ n.preferred_language = lang
    /\ deleted = {}
    /\ {n \in store : n.id \notin created} = {n \in storeAtStart : n.id \notin created}

RegisteredItemNodes(nodes) == {n \in nodes : n.internal.type \in Range(itemTypes)}

\* C5: after an upsert or delete run, every node of a registered item type that
\* the run created or updated and that is in the store has been touched.
C5_ProcessedNodesTouched ==
    (pc = "done" /\ handler \in {"upsert", "delete"}) =>
        \A n \in RegisteredItemNodes(store) : n.id \in created => n.id \in touched

\* C6: a node of a registered item type whose id the run neither created (or
\* updated) nor deleted is not touched.
C6_OnlyProcessedItemsTouched ==
    \A n \in RegisteredItemNodes(store \cup storeAtStart) :
        n.id \notin created \cup deleted => n.id \notin touched

\* C6 witness: an upsert run ended that created nodes, touched the taxonomies and
\* left alone a stored node of a registered item type that it had not processed.
C6_Witness ==
    /\ pc = "done"
    /\ handler = "upsert"
    /\ created # {}
    /\ touched # {}
    /\ \E n \in RegisteredItemNodes(store) :
          n.id \notin created \cup deleted /\ n.id \notin touched

TaxonomyIds == {n.id : n \in getNodesByType(store, getKontentTaxonomyTypeName)}
TypeIds == {n.id : n \in getNodesByType(store, getKontentTypeTypeName)}

\* The run's webhook passed the structural check and the support check.
IsSupported(body) ==
    IsEnvelope(body) /\ isKontentSupportedWebhook(body.message, ProjectId)

\* C7: when the run of a supported envelope completes, the taxonomy nodes are all
\* touched if includeTaxonomies is set and none is if it is not, and likewise the
\* type nodes under includeTypes, whatever the handler processed.
C7_SchemaNodesTouchedByFlag ==
    (pc = "done" /\ IsSupported(webhookBody)) =>
        /\ touched \cap TaxonomyIds = (IF pluginConfig.includeTaxonomies THEN TaxonomyIds ELSE {})
        /\ touched \cap TypeIds = (IF pluginConfig.includeTypes THEN TypeIds ELSE {})

\* C7 witness: a supported run completed whose handler processed nothing, with
\* taxonomies included and types not: exactly the taxonomy nodes were touched.
C7_Witness ==
    /\ pc = "done"
    /\ IsSupported(webhookBody)
    /\ created = {}
    /\ deleted = {}
    /\ pluginConfig.includeTaxonomies
    /\ ~pluginConfig.includeTypes
    /\ TaxonomyIds # {}
    /\ TypeIds # {}
    /\ touched = TaxonomyIds

(***************************************************************************)
(* The delete handler.                                                     *)
(***************************************************************************)
StartIds == {n.id : n \in storeAtStart}

\* The stored item nodes filed under a language when the run began.
ItemNodesOfLanguage(lang) ==
    {n \in storeAtStart :
        /\ StartsWith(n.internal.type, getKontentItemInterfaceName)
        /\ Get(n, PREFERRED_LANGUAGE_IDENTIFIER) = lang}

\* The codenames the rich-text elements of a node reference.
RichTextReferences(node) ==
    UNION {node.elements[k].modular_content :
             k \in {e \in DOMAIN node.elements : node.elements[e].type = "rich_text"}}

\* The characters [14:16] of the UUID are the component marker "01".
HasComponentMarker(id) == Chars(id)[15] = "0" /\ Chars(id)[16] = "1"

\* C8: after a delete run for item I (the event's language being a configured
\* one), for every configured language L that does not resolve and whose node
\* (I,L) was stored: node (I,L) is gone, and of the other item nodes filed under L
\* exactly those are gone whose codename a rich-text element of node (I,L)
\* references and whose UUID carries the component marker.
C8_DeleteCascade ==
    (/\ RunEnded
     /\ handler = "delete"
     /\ EventLanguage \in ConfiguredLanguages)
        => \A lang \in ConfiguredLanguages :
              (~Resolves(EventItem, lang) /\ NodeId(EventItem, lang) \in StartIds) =>
                 LET node == getNode(storeAtStart, NodeId(EventItem, lang)) IN
                 /\ NodeId(EventItem, lang) \notin StoreIds
                 /\ \A n \in ItemNodesOfLanguage(lang) \ {node} :
                       (n.id \notin StoreIds) <=>
                          (/\ n.system.codename \in RichTextReferences(node)
                           /\ HasComponentMarker(n.system.id))

\* C9: after a delete run for item I (the event's language being a configured
\* one), for every configured language L that still resolves: node (I,L) was
\* created from the snapshot under L with its modular content, and no node filed
\* under L was deleted.
C9_FallbackRecreates ==
    (/\ RunEnded
     /\ handler = "delete"
     /\ EventLanguage \in ConfiguredLanguages)
        => \A lang \in ConfiguredLanguages :
              Resolves(EventItem, lang) =>
                 /\ NodeId(EventItem, lang) \in created
                 /\ \E n \in store :
                       /\ n.id = NodeId(EventItem, lang)
                       /\ n.preferred_language = lang
                       /\ n.elements = remote[<<EventItem, lang>>].elements
                 /\ \A c \in ModularCodenames(EventItem, lang) :
                       NodeId(IdOfCodename(c), lang) \in created \cap StoreIds
                 /\ \A n \in ItemNodesOfLanguage(lang) : n.id \notin deleted

ItemNodes == kontentItemNodes(store)

\* C11: when an upsert notification that ran to completion is delivered again,
\* the remote content unchanged, the second run completes too and leaves the
\* store exactly as the first run left it: the same nodes, with the same
\* content and the same preferred-language markers; it creates again the ids the
\* first run created.
C11_UpsertTwiceSameAsOnce ==
    (/\ firstRun.redelivered
     /\ firstRun.ended = "done"
     /\ handler = "upsert")
        => /\ pc \in {"upsert", "touch", "done", "interrupted"}
           /\ store = firstRun.end
           /\ HandlerReturned =>
                 created = HandlerRun("upsert", firstRun.start, remote, webhookBody).created

\* C11 witness: the redelivered upsert is done; the first run had changed the
\* store, one language resolved by fallback, and the second run created nodes.
C11_Witness ==
    /\ firstRun.redelivered
    /\ firstRun.ended = "done"
    /\ handler = "upsert"
    /\ pc = "done"
    /\ firstRun.start # firstRun.end
    /\ Resolves(EventItem, "cz")
    /\ remote[<<EventItem, "cz">>].system.language = "en"
    /\ NodeId(EventItem, "cz") \in created
    /\ Resolves(EventItem, "en")
    /\ ModularCodenames(EventItem, "en") # {}

\* C12: in every reachable store, two item nodes with the same item id and the
\* same preferred language are one node, every item node is stored under the id
\* of (its item id, its preferred language), and every language fetched in the
\* current run that resolved, by fallback or not, has its node stored under the
\* requested language and marked with it.
C12_OneNodePerItemAndLanguage ==
    /\ \A n, m \in ItemNodes :
          (n.system.id = m.system.id /\ n.preferred_language = m.preferred_language)
             => n = m
    /\ \A n \in ItemNodes :
          /\ n.id = NodeId(n.system.id, n.preferred_language)
          /\ n.preferred_language \in ConfiguredLanguages
    /\ \A pair \in fetched :
          Resolves(pair[1], pair[2]) =>
             \E n \in ItemNodes :
                /\ n.id = NodeId(pair[1], pair[2])
                /\ n.system.id = pair[1]
                /\ n.preferred_language = pair[2]
                /\ n.system.language = remote[pair].system.language

\* C12 witness: a delete run ended; "cz" resolved by fallback to "en" content and
\* replaced an earlier node of other content, and the "en" node was deleted.
C12_Witness ==
    /\ pc = "done"
    /\ handler = "delete"
    /\ EventLanguage \in ConfiguredLanguages
    /\ Resolves(EventItem, "cz")
    /\ remote[<<EventItem, "cz">>].system.language = "en"
    /\ getNode(storeAtStart, NodeId(EventItem, "cz")) # UndefinedObject
    /\ getNode(storeAtStart, NodeId(EventItem, "cz")) # getNode(store, NodeId(EventItem, "cz"))
    /\ NodeId(EventItem, "en") \in deleted

\* The envelope with data.items cut to its first entry.
Truncated(body) == [body EXCEPT !.data.items = <<body.data.items[1]>>]

\* C13: when data.items has more than one entry, a run of either handler
\* fetches only the first entry's id, creates and deletes no node of a later
\* entry's id, and ends as the handler does on the envelope cut to its first
\* entry: the same store, the same ids created and deleted, the same outcome.
C13_OnlyFirstEntryReconciled ==
    (/\ RunEnded
     /\ handler \in {"upsert", "delete"}
     /\ Len(webhookBody.data.items) > 1)
        => LET items == webhookBody.data.items
               expected == HandlerRun(handler, storeAtStart, remote, Truncated(webhookBody))
           IN /\ \A i \in 2..Len(items) :
                    items[i].id # items[1].id =>
                       /\ \A pair \in fetched : pair[1] # items[i].id
                       /\ \A lang \in ConfiguredLanguages :
                             NodeId(items[i].id, lang) \notin created \cup deleted
              /\ store = expected.nodes
              /\ created = expected.created
              /\ deleted = expected.deleted
              /\ (pc = "failed") = expected.threw

\* C13 witness: an upsert for [i2, i1] is done: the node of i2 was created, and
\* i1, which resolves for "en" and has no node, was left alone.
C13_Witness ==
    /\ pc = "done"
    /\ handler = "upsert"
    /\ Len(webhookBody.data.items) = 2
    /\ webhookBody.data.items[1].id = "i2"
    /\ webhookBody.data.items[2].id = "i1"
    /\ Resolves("i1", "en")
    /\ NodeId("i1", "en") \notin StoreIds
    /\ NodeId("i2", "en") \in created

(***************************************************************************)
(* The delete handler: absent languages, agreement, interruption, order.   *)
(***************************************************************************)
\* C14: a delete run in which a configured language L does not resolve and
\* the store has no node (I,L) raises no error: nothing is deleted for L, every
\* configured language is fetched, and the run ends after touch propagation.
C14_AbsentWithoutNodeIsSkipped ==
    (/\ RunEnded
     /\ handler = "delete"
     /\ EventLanguage \in ConfiguredLanguages
     /\ \E lang \in ConfiguredLanguages :
           ~Resolves(EventItem, lang) /\ NodeId(EventItem, lang) \notin StartIds)
        => /\ pc = "done"
           /\ fetched = {<<EventItem, lang>> : lang \in ConfiguredLanguages}
           /\ \A lang \in ConfiguredLanguages :
                 (~Resolves(EventItem, lang) /\ NodeId(EventItem, lang) \notin StartIds)
                    => \A n \in storeAtStart :
                          n.preferred_language = lang => n \in store

\* C15: after a delete run for item I that completed, the event's language being
\* a configured one, node (I,L) is stored exactly for the configured languages L
\* for which the remote source resolves (I,L).
C15_CompletedDeleteAgreesWithRemote ==
    (/\ pc = "done"
     /\ handler = "delete"
     /\ EventLanguage \in ConfiguredLanguages)
        => \A lang \in ConfiguredLanguages :
              (NodeId(EventItem, lang) \in StoreIds) <=> Resolves(EventItem, lang)

\* C15 witness: a delete run completed; "en" no longer resolved and its node was
\* deleted, "cz" resolved and its node, missing before, was created.
C15_Witness ==
    /\ pc = "done"
    /\ handler = "delete"
    /\ EventLanguage \in ConfiguredLanguages
    /\ ~Resolves(EventItem, "en")
    /\ NodeId(EventItem, "en") \in StartIds \ StoreIds
    /\ Resolves(EventItem, "cz")
    /\ NodeId(EventItem, "cz") \in StoreIds \ StartIds

\* C16: when a delete run that would have completed is interrupted in its
\* fan-out and the same notification is delivered again, the remote content
\* unchanged, the second run completes and leaves the store the uninterrupted
\* run would have left.
C16_InterruptedDeleteRerun ==
    (/\ firstRun.redelivered
     /\ firstRun.ended = "interrupted"
     /\ handler = "delete"
     /\ RunEnded
     /\ ~HandlerRun("delete", firstRun.start, remote, webhookBody).threw)
        => /\ pc = "done"
           /\ store = HandlerRun("delete", firstRun.start, remote, webhookBody).nodes

\* The orders in which the configured languages can be processed.
LanguageOrders ==
    {order \in [1..Len(languageCodenames) -> ConfiguredLanguages] :
        Range(order) = ConfiguredLanguages}

\* C17: the store a run of either handler leaves, and the ids it created and
\* deleted, are what the handler leaves, creates and deletes when it processes
\* the configured languages in any other order.
C17_LanguageOrderIrrelevant ==
    (/\ pc \in {"touch", "done", "failed"}
     /\ handler \in {"upsert", "delete"}
     /\ itemInfo # UndefinedObject
     /\ EventLanguage \in ConfiguredLanguages)
        => \A order \in LanguageOrders :
              LET other == FanOut(handler, storeAtStart, remote, EventItem, order) IN
              /\ other.nodes = store
              /\ other.created = created
              /\ other.deleted = deleted

(***************************************************************************)
(* The upsert handler's frame, the empty list, the dispatch.               *)
(***************************************************************************)
\* C18: an upsert run deletes no node: every node stored at its start is still
\* stored under its id, changed only if the run created a node of that id; for a
\* configured language that does not resolve nothing is created, and the nodes
\* of that language, node (I,L) among them, are as they were.
C18_UpsertNeverDeletes ==
    (InRun /\ handler = "upsert") =>
        /\ deleted = {}
        /\ StartIds \subseteq StoreIds
        /\ \A n \in storeAtStart : n.id \notin created => n \in store
        /\ \A pair \in fetched :
              ~Resolves(pair[1], pair[2]) =>
                 /\ NodeId(pair[1], pair[2]) \notin created
                 /\ getNode(store, NodeId(pair[1], pair[2]))
                       = getNode(storeAtStart, NodeId(pair[1], pair[2]))
                 /\ {n \in kontentItemNodes(store) : n.preferred_language = pair[2]}
                       = {n \in kontentItemNodes(storeAtStart) : n.preferred_language = pair[2]}

\* C18 witness: an upsert is done; "en" did not resolve and its stale node, with
\* a stale component, is still stored; "cz" resolved and its node was created.
C18_Witness ==
    /\ pc = "done"
    /\ handler = "upsert"
    /\ fetched = {<<EventItem, lang>> : lang \in ConfiguredLanguages}
    /\ ~Resolves(EventItem, "en")
    /\ NodeId(EventItem, "en") \in StoreIds
    /\ NodeId("c1", "en") \in StoreIds
    /\ Resolves(EventItem, "cz")
    /\ NodeId(EventItem, "cz") \in created

\* C19: a run on an accepted and supported envelope whose data.items is empty
\* ends without an error, having created, deleted and fetched nothing and
\* touched no item node.
C19_EmptyItemsIsNoOp ==
    (/\ RunEnded
     /\ IsSupported(webhookBody)
     /\ webhookBody.data.items = <<>>)
        => /\ pc = "done"
           /\ created = {}
           /\ deleted = {}
           /\ fetched = {}
           /\ store = storeAtStart
           /\ touched \cap {n.id : n \in ItemNodes} = {}

\* C20: a run never takes the 'Webhook is not supported yet!' branch, nor passes
\* the dispatch without calling a handler: an envelope that passed the support
\* check is handed to the upsert handler or to the delete handler, the one the
\* dispatch names.
C20_SupportedIsDispatched ==
    InRun =>
        /\ handler \notin {"ignore", "none"}
        /\ IsSupported(webhookBody) =>
              /\ handler \in {"upsert", "delete"}
              /\ handler = Dispatch(webhookBody.message)

\* C20 witness: a (production, unpublish) notification passed the support check
\* and the delete handler ran to the end.
C20_Witness ==
    /\ pc = "done"
    /\ IsSupported(webhookBody)
    /\ PairOf(webhookBody) = <<"delivery_production", "unpublish">>
    /\ handler = "delete"
    /\ deleted # {}

====
